---- MODULE Spec2Model ----
\* On-air state machine of onair-buddy (src/src/recording_watcher.rs):
\* scope classification of nodes, evaluation of links, the edge-triggered
\* on_air flag with its hook calls, and the registry listener callbacks that
\* drive the shared State behind an RwLock.
EXTENDS Integers, Sequences, FiniteSets, TLC

VARIABLES
    devices_in_scope,   \* State.devices_in_scope : HashSet<String>
    devices_ignored,    \* State.devices_ignored  : HashSet<String>
    ids_in_scope,       \* State.ids_in_scope     : HashSet<u32>
    ids_ignored,        \* State.ids_ignored      : HashSet<u32>
    active_links,       \* State.active_links     : HashSet<u32>
    on_air,             \* State.on_air           : bool
    registry,           \* State.registry         : HashMap<u32, String>
    poisoned,           \* the RwLock's poison flag (a writer panicked)
    lock,               \* the RwLock's holders: its writer and its readers
    cb,                 \* per caller: the callback it is in and where
    last,               \* history: the event handled last and what its handler did
    hook_balance,       \* history: go_on_air calls made minus go_off_air calls made
    missed              \* history: the link add_link found out of scope, while only
                        \* node-added events were handled since (0: none)

\* The State of src/src/main.rs and what main keeps beside it
VARIABLES
    headset_id,         \* State.headset_id   : Option<u32>
    main_active_links,  \* State.active_links : HashSet<u32>
    main_on_air,        \* State.on_air       : bool
    local_registry,     \* local_registry     : HashMap<u32, String>
    main_last           \* history: the event main's callbacks handled last

\* The environment of the watcher
VARIABLES
    draining            \* no link-added event arrives any more and the
                        \* id-removed events of the active links are delivered

main_vars == <<headset_id, main_active_links, main_on_air, local_registry, main_last>>

vars == <<devices_in_scope, devices_ignored, ids_in_scope, ids_ignored,
          active_links, on_air, registry, poisoned, lock, cb, last, hook_balance,
          missed, main_vars, draining>>

----------------------------------------------------------------------------
\* Bounds and input sets

\* Global ids 1..MaxId are in use; nodes, links and removals share the id
\* space, so an id may name a node and a link.
MaxId == 2

Ids == 1..MaxId

\* u32::MAX, the largest id and the key of the registry's placeholder entry.
\* TLC's integers end at 2^31 - 1, which stands for 2^32 - 1 here: the model
\* uses it only as the top of the id range.
U32Max == 2147483647

NodeIds == Ids \cup {U32Max}

EmptyProps == <<>>

KeyDescription == "node.description"

KeyNick == "node.nick"

KeyName == "node.name"

KeyInput == "link.input.node"

KeyOutput == "link.output.node"

\* The configuration handed to RecordingWatcher::new.
Configs ==
    { [in_scope |-> {"Mic", "Jabra Engage 75 Mono"}, ignored |-> {"Volume Control"}] }

\* A node whose aliases match neither configured set ("mic" differs from the
\* configured "Mic" in case only).
PlainNode == (KeyDescription :> "USB Audio") @@ (KeyName :> "mic")

\* A node with properties but none of the three name keys.
UnnamedNode == ("media.class" :> "Audio/Sink")

\* Property bags of node-added events: no alias, unmatched, in scope,
\* ignored, and both.
NodeProps ==
    { EmptyProps,
      UnnamedNode,
      PlainNode,
      (KeyDescription :> "USB Audio") @@ (KeyName :> "Mic"),
      (KeyDescription :> "USB Audio") @@ (KeyName :> "Volume Control"),
      (KeyDescription :> "USB Audio") @@ (KeyNick :> "Mic") @@ (KeyName :> "Volume Control") }

\* The node-added events delivered: any bag for the ids in use, and a node
\* with the largest id that matches no configured name.
NodeEvents ==
    (Ids \X NodeProps) \cup ({U32Max} \X {EmptyProps, PlainNode})

\* Decimal text of a number below 10, as a sequence of characters.
Digits == <<"0", "1", "2", "3", "4", "5", "6", "7", "8", "9">>

\* The graph: link l runs from node 1 to node l.
LinkEnds(l) == [output |-> 1, input |-> l]

\* Property bags of the link-added events for link l: both endpoints, an
\* endpoint missing, an endpoint that is no number.
LinkProps(l) ==
    LET o == <<Digits[LinkEnds(l).output + 1]>>
        i == <<Digits[LinkEnds(l).input + 1]>>
    IN  { (KeyOutput :> o) @@ (KeyInput :> i),
          (KeyOutput :> o),
          (KeyInput :> i),
          (KeyOutput :> <<"x">>) @@ (KeyInput :> i),
          (KeyOutput :> o) @@ (KeyInput :> <<"x">>) }

----------------------------------------------------------------------------
\* Pure helpers

\* Option<T>: Some(v) / None. An absent value carries a filler of T's kind.
Some(v) == [some |-> TRUE, val |-> v]

NoStr == [some |-> FALSE, val |-> <<>>]

NoU32 == [some |-> FALSE, val |-> 0]

\* ForeignDict::get
DictGet(props, key) == IF key \in DOMAIN props THEN Some(props[key]) ELSE NoStr

DigitValue(c) ==
    IF \E i \in 1..10 : Digits[i] = c
    THEN Some((CHOOSE i \in 1..10 : Digits[i] = c) - 1)
    ELSE NoU32

RECURSIVE ParseDigits(_, _)
ParseDigits(str, acc) ==
    IF str = <<>> THEN Some(acc)
    ELSE LET d == DigitValue(Head(str)) IN
         IF ~d.some THEN NoU32
         ELSE IF acc > (U32Max - d.val) \div 10 THEN NoU32
         ELSE ParseDigits(Tail(str), acc * 10 + d.val)

\* u32::parse_value, which is str::parse::<u32>().ok(): decimal digits with
\* an optional leading "+", no overflow.
ParseU32(str) ==
    IF str = <<>> THEN NoU32
    ELSE IF Head(str) = "+"
         THEN (IF Tail(str) = <<>> THEN NoU32 ELSE ParseDigits(Tail(str), 0))
         ELSE ParseDigits(str, 0)

get_input_node(props) == DictGet(props, KeyInput)

get_output_node(props) == DictGet(props, KeyOutput)

NameKeys == <<KeyDescription, KeyNick, KeyName>>

\* Mutant of get_all_names: every property of the bag is taken for a name.
get_all_names_any_key(props) ==
    LET keys == DOMAIN props
        RECURSIVE Values(_)
        Values(ks) == IF ks = {} THEN <<>>
                      ELSE LET k == CHOOSE x \in ks : TRUE
                           IN  <<props[k]>> \o Values(ks \ {k})
    IN  Values(keys)

get_all_names(props) ==
    LET present == SelectSeq(NameKeys, LAMBDA k : k \in DOMAIN props)
    IN  [i \in 1..Len(present) |-> props[present[i]]]

----------------------------------------------------------------------------
\* The State aggregate as a value, and its methods as operators on it

CurrentState ==
    [ devices_in_scope |-> devices_in_scope,
      devices_ignored  |-> devices_ignored,
      ids_in_scope     |-> ids_in_scope,
      ids_ignored      |-> ids_ignored,
      active_links     |-> active_links,
      on_air           |-> on_air,
      registry         |-> registry ]

Store(s) ==
    /\ devices_in_scope' = s.devices_in_scope
    /\ devices_ignored' = s.devices_ignored
    /\ ids_in_scope' = s.ids_in_scope
    /\ ids_ignored' = s.ids_ignored
    /\ active_links' = s.active_links
    /\ on_air' = s.on_air
    /\ registry' = s.registry

\* State::new
NewState(cfg) ==
    [ devices_in_scope |-> cfg.in_scope,
      devices_ignored  |-> cfg.ignored,
      ids_in_scope     |-> {},
      ids_ignored      |-> {},
      active_links     |-> {},
      on_air           |-> FALSE,
      registry         |-> (U32Max :> "unresolved") ]

\* What a method hands back: the State it leaves, the hook calls it made in
\* order, and the panic that ended it ("none" when it returned).
Outcome(s, calls, panic) == [state |-> s, calls |-> calls, panic |-> panic]

\* DebugActor::go_on_air / go_off_air: launches the notification process and
\* panics ("failed to execute process") when it cannot be launched.
ActorCall(hook, actor_ok) ==
    [calls |-> <<hook>>, panic |-> IF actor_ok THEN "none" ELSE "actor"]

\* What a sequence of hook calls adds to go_on_air calls minus go_off_air
\* calls.
RECURSIVE HookDelta(_)
HookDelta(calls) ==
    IF calls = <<>> THEN 0
    ELSE (IF Head(calls) = "go_on_air" THEN 1 ELSE -1) + HookDelta(Tail(calls))

\* State::run_on_air_hook
run_on_air_hook(actor_ok) == ActorCall("go_on_air", actor_ok)

\* State::run_off_air_hook
run_off_air_hook(actor_ok) == ActorCall("go_off_air", actor_ok)

\* Mutant of update_on_air: the flag is only ever raised, never lowered.
update_on_air_never_off(s, actor_ok) ==
    IF ~s.on_air /\ s.active_links # {}
    THEN LET h == run_on_air_hook(actor_ok)
         IN  Outcome([s EXCEPT !.on_air = TRUE], h.calls, h.panic)
    ELSE Outcome(s, <<>>, "none")

\* Mutant of update_on_air: level-triggered, the hook runs on every
\* recomputation that finds a link active.
update_on_air_level(s, actor_ok) ==
    LET target_state == s.active_links # {}
    IN  IF target_state
        THEN LET h == run_on_air_hook(actor_ok)
             IN  Outcome([s EXCEPT !.on_air = TRUE], h.calls, h.panic)
        ELSE IF s.on_air
        THEN LET h == run_off_air_hook(actor_ok)
             IN  Outcome([s EXCEPT !.on_air = FALSE], h.calls, h.panic)
        ELSE Outcome(s, <<>>, "none")

\* State::update_on_air
update_on_air(s, actor_ok) ==
    LET current_state == s.on_air
        target_state == s.active_links # {}
    IN  IF current_state # target_state
        THEN LET h == IF target_state THEN run_on_air_hook(actor_ok)
                      ELSE run_off_air_hook(actor_ok)
             IN  Outcome([s EXCEPT !.on_air = target_state], h.calls, h.panic)
        ELSE Outcome(s, <<>>, "none")

\* Mutant of link_qualifies: the ignore list is not consulted.
link_qualifies_no_ignore(s, output_node, input_node) ==
    output_node \in s.ids_in_scope

\* Mutant of link_qualifies: the scope test is dropped.
link_qualifies_no_scope(s, output_node, input_node) ==
    input_node \notin s.ids_ignored

\* The two tests of add_link on the parsed endpoints.
link_qualifies(s, output_node, input_node) ==
    /\ output_node \in s.ids_in_scope
    /\ input_node \notin s.ids_ignored

\* The unwrap()s at the head of add_link: the panic they end in, "none" when
\* both endpoints are present and parse.
endpoint_panic(props) ==
    LET i == get_input_node(props)
        o == get_output_node(props)
    IN  IF ~i.some THEN "NoInputNode"
        ELSE IF ~ParseU32(i.val).some THEN "input not u32"
        ELSE IF ~o.some THEN "NoOutputNode"
        ELSE IF ~ParseU32(o.val).some THEN "output not u32"
        ELSE "none"

input_node_of(props) == ParseU32(get_input_node(props).val).val

output_node_of(props) == ParseU32(get_output_node(props).val).val

\* State::add_link, up to the call of update_on_air
insert_link(s, id, props) ==
    IF link_qualifies(s, output_node_of(props), input_node_of(props))
    THEN [s EXCEPT !.active_links = @ \cup {id}]
    ELSE s

\* State::add_link
add_link(s, id, props, actor_ok) ==
    IF endpoint_panic(props) # "none"
    THEN Outcome(s, <<>>, endpoint_panic(props))
    ELSE update_on_air(insert_link(s, id, props), actor_ok)

\* Mutant of add_node: the node is classified anew on every node-added
\* event, so an id leaves a set its aliases no longer match.
add_node_reclassify(s, id, props) ==
    LET node_names == get_all_names(props) IN
    IF node_names # <<>>
    THEN [s EXCEPT
            !.registry = [k \in DOMAIN @ \cup {id} |-> IF k = id THEN Head(node_names) ELSE @[k]],
            !.ids_in_scope =
                IF \E i \in 1..Len(node_names) : node_names[i] \in s.devices_in_scope
                THEN @ \cup {id} ELSE @ \ {id},
            !.ids_ignored =
                IF \E i \in 1..Len(node_names) : node_names[i] \in s.devices_ignored
                THEN @ \cup {id} ELSE @ \ {id}]
    ELSE s

\* Mutant of add_node: the ignore test hangs on the scope test as an else
\* branch, so a node matching both sets is only put in scope.
add_node_else_if(s, id, props) ==
    LET node_names == get_all_names(props) IN
    IF node_names # <<>>
    THEN LET s1 == [s EXCEPT !.registry =
                        [k \in DOMAIN @ \cup {id} |-> IF k = id THEN Head(node_names) ELSE @[k]]]
         IN  IF \E i \in 1..Len(node_names) : node_names[i] \in s.devices_in_scope
             THEN [s1 EXCEPT !.ids_in_scope = @ \cup {id}]
             ELSE IF \E i \in 1..Len(node_names) : node_names[i] \in s.devices_ignored
             THEN [s1 EXCEPT !.ids_ignored = @ \cup {id}]
             ELSE s1
    ELSE s

\* str::to_lowercase on the names in use.
Lower(name) ==
    CASE name = "Mic" -> "mic"
      [] name = "Volume Control" -> "volume control"
      [] name = "Jabra Engage 75 Mono" -> "jabra engage 75 mono"
      [] name = "USB Audio" -> "usb audio"
      [] OTHER -> name

\* Mutant of add_node: names are compared ignoring case.
add_node_ignore_case(s, id, props) ==
    LET node_names == get_all_names(props)
        Matches(configured) ==
            \E i \in 1..Len(node_names) :
                \E c \in configured : Lower(node_names[i]) = Lower(c)
    IN
    IF node_names # <<>>
    THEN LET s1 == [s EXCEPT !.registry =
                        [k \in DOMAIN @ \cup {id} |-> IF k = id THEN Head(node_names) ELSE @[k]]]
             s2 == IF Matches(s.devices_in_scope)
                   THEN [s1 EXCEPT !.ids_in_scope = @ \cup {id}] ELSE s1
         IN  IF Matches(s.devices_ignored)
             THEN [s2 EXCEPT !.ids_ignored = @ \cup {id}] ELSE s2
    ELSE s

\* Mutant of add_node: a node coming into scope activates the links that
\* leave it.
add_node_activates(s, id, props) ==
    LET node_names == get_all_names(props) IN
    IF node_names # <<>>
    THEN LET s1 == [s EXCEPT !.registry =
                        [k \in DOMAIN @ \cup {id} |-> IF k = id THEN Head(node_names) ELSE @[k]]]
             s2 == IF \E i \in 1..Len(node_names) : node_names[i] \in s.devices_in_scope
                   THEN [s1 EXCEPT !.ids_in_scope = @ \cup {id},
                                   !.active_links = @ \cup {l \in Ids : LinkEnds(l).output = id}]
                   ELSE s1
         IN  IF \E i \in 1..Len(node_names) : node_names[i] \in s.devices_ignored
             THEN [s2 EXCEPT !.ids_ignored = @ \cup {id}]
             ELSE s2
    ELSE s

\* Mutant of add_node: a node coming into scope raises on_air at once.
add_node_goes_on_air(s, id, props) ==
    LET node_names == get_all_names(props) IN
    IF node_names # <<>>
    THEN LET s1 == [s EXCEPT !.registry =
                        [k \in DOMAIN @ \cup {id} |-> IF k = id THEN Head(node_names) ELSE @[k]]]
             s2 == IF \E i \in 1..Len(node_names) : node_names[i] \in s.devices_in_scope
                   THEN [s1 EXCEPT !.ids_in_scope = @ \cup {id}, !.on_air = TRUE]
                   ELSE s1
         IN  IF \E i \in 1..Len(node_names) : node_names[i] \in s.devices_ignored
             THEN [s2 EXCEPT !.ids_ignored = @ \cup {id}]
             ELSE s2
    ELSE s

\* State::add_node
add_node(s, id, props) ==
    LET node_names == get_all_names(props) IN
    IF node_names # <<>>
    THEN LET primary_name == Head(node_names)
             s1 == [s EXCEPT !.registry =
                        [k \in DOMAIN @ \cup {id} |-> IF k = id THEN primary_name ELSE @[k]]]
             s2 == IF \E i \in 1..Len(node_names) : node_names[i] \in s.devices_in_scope
                   THEN [s1 EXCEPT !.ids_in_scope = @ \cup {id}]
                   ELSE s1
             s3 == IF \E i \in 1..Len(node_names) : node_names[i] \in s.devices_ignored
                   THEN [s2 EXCEPT !.ids_ignored = @ \cup {id}]
                   ELSE s2
         IN  s3
    ELSE s

\* State::resolve_node_id
resolve_node_id(s, id) ==
    IF id \in DOMAIN s.registry THEN Some(s.registry[id])
    ELSE IF U32Max \in DOMAIN s.registry THEN Some(s.registry[U32Max])
    ELSE [some |-> FALSE, val |-> ""]

\* State::remove_link, up to the call of update_on_air
drop_link(s, id) == [s EXCEPT !.active_links = @ \ {id}]

\* State::remove_link
remove_link(s, id, actor_ok) == update_on_air(drop_link(s, id), actor_ok)

\* State::check_if_on_air
check_if_on_air(s) == s.on_air

----------------------------------------------------------------------------
\* The registry listener's callbacks, each run to completion on the main loop

\* RwLock::write().unwrap() / read().unwrap() on a poisoned lock
LockPanic(s) == Outcome(s, <<>>, "PoisonError")

\* .global callback, ObjectType::Node branch
global_node(s, lock_poisoned, id, has_props, props) ==
    IF ~has_props THEN Outcome(s, <<>>, "none")
    ELSE IF lock_poisoned THEN LockPanic(s)
    ELSE Outcome(add_node(s, id, props), <<>>, "none")

\* .global callback, ObjectType::Link branch
global_link(s, lock_poisoned, id, has_props, props, actor_ok) ==
    IF ~has_props THEN Outcome(s, <<>>, "none")
    ELSE IF lock_poisoned THEN LockPanic(s)
    ELSE add_link(s, id, props, actor_ok)

\* .global_remove callback: the membership test under the read lock
remove_hit(s, id) == id \in s.active_links

\* Mutant of global_remove: a removed id that is no active link is taken for
\* a node and dropped from the id sets.
global_remove_drops_node(s, lock_poisoned, id, actor_ok) ==
    IF lock_poisoned THEN LockPanic(s)
    ELSE IF remove_hit(s, id) THEN remove_link(s, id, actor_ok)
    ELSE Outcome([s EXCEPT !.ids_in_scope = @ \ {id}, !.ids_ignored = @ \ {id}], <<>>, "none")

\* .global_remove callback
global_remove(s, lock_poisoned, id, actor_ok) ==
    IF lock_poisoned THEN LockPanic(s)
    ELSE IF remove_hit(s, id) THEN remove_link(s, id, actor_ok)
    ELSE Outcome(s, <<>>, "none")

\* A panic while the write guard is held poisons the lock as the guard drops.
PoisonsLock(panic) == panic \notin {"none", "PoisonError"}

\* The record kept of the event handled last. props is the bag handed to the
\* State method (empty when none was handed over).
Handled(kind, id, has_props, props, hit, out) ==
    [ kind      |-> kind,
      id        |-> id,
      has_props |-> has_props,
      props     |-> props,
      hit       |-> hit,
      panic     |-> out.panic,
      calls     |-> out.calls ]

\* What a callback leaves behind. A panic unwinds out of the callback (or
\* ends the process, which is the behaviour that takes no further step).
AfterCallback(out) ==
    /\ Store(out.state)
    /\ poisoned' = (poisoned \/ PoisonsLock(out.panic))
    /\ hook_balance' = hook_balance + HookDelta(out.calls)

\* State::default() and HashMap::new() at the head of main (src/src/main.rs)
StoreMainInit ==
    /\ headset_id = NoU32
    /\ main_active_links = {}
    /\ main_on_air = FALSE
    /\ local_registry = <<>>
    /\ main_last = [kind |-> "init", id |-> 0, calls |-> <<>>, panic |-> "none"]

\* The threads that may be inside a callback at once.
Callers == {"loop", "other"}

FreeLock == [writer |-> "none", readers |-> {}]

\* A caller that is in no callback.
Idle == [pc |-> "idle", kind |-> "none", id |-> 0, props |-> EmptyProps, hook |-> "none"]

Init ==
    /\ \E cfg \in Configs :
         LET s == NewState(cfg) IN
         /\ devices_in_scope = s.devices_in_scope
         /\ devices_ignored = s.devices_ignored
         /\ ids_in_scope = s.ids_in_scope
         /\ ids_ignored = s.ids_ignored
         /\ active_links = s.active_links
         /\ on_air = s.on_air
         /\ registry = s.registry
    /\ poisoned = FALSE
    /\ lock = FreeLock
    /\ cb = [t \in Callers |-> Idle]
    /\ last = Handled("init", 0, FALSE, EmptyProps, FALSE, Outcome(0, <<>>, "none"))
    /\ hook_balance = 0
    /\ missed = 0
    /\ StoreMainInit
    /\ draining = FALSE

\* A node-added event
NodeAdded(id, has_props, props) ==
    LET out == global_node(CurrentState, poisoned, id, has_props, props) IN
    /\ AfterCallback(out)
    /\ last' = Handled("node", id, has_props,
                       IF out.panic = "none" THEN props ELSE EmptyProps, FALSE, out)
    /\ UNCHANGED <<main_vars, draining, lock, cb, missed>>

\* A link-added event
LinkAdded(id, has_props, props, actor_ok) ==
    LET out == global_link(CurrentState, poisoned, id, has_props, props, actor_ok) IN
    /\ AfterCallback(out)
    /\ last' = Handled("link", id, has_props,
                       IF out.panic = "PoisonError" THEN EmptyProps ELSE props, FALSE, out)
    /\ missed' = IF /\ ~poisoned /\ has_props /\ endpoint_panic(props) = "none"
                    /\ output_node_of(props) \notin ids_in_scope
                 THEN id ELSE 0
    /\ UNCHANGED <<main_vars, draining, lock, cb>>

\* An id-removed event
GlobalRemoved(id, actor_ok) ==
    LET out == global_remove(CurrentState, poisoned, id, actor_ok) IN
    /\ AfterCallback(out)
    /\ last' = Handled("remove", id, FALSE, EmptyProps,
                       ~poisoned /\ remove_hit(CurrentState, id), out)
    /\ missed' = 0
    /\ UNCHANGED <<main_vars, draining, lock, cb>>

Next ==
    \/ \E e \in NodeEvents : NodeAdded(e[1], TRUE, e[2])
    \/ \E id \in NodeIds : NodeAdded(id, FALSE, EmptyProps)
    \/ \E id \in Ids, actor_ok \in BOOLEAN :
         \E props \in LinkProps(id) : LinkAdded(id, TRUE, props, actor_ok)
    \/ \E id \in Ids : LinkAdded(id, FALSE, EmptyProps, TRUE)
    \/ \E id \in NodeIds, actor_ok \in BOOLEAN : GlobalRemoved(id, actor_ok)

Spec == Init /\ [][Next]_vars

----------------------------------------------------------------------------
\* The watcher with an environment that at some point, on air, stops sending
\* link-added events and from then on delivers the id-removed event of every
\* link that is active.

StartDraining ==
    /\ ~draining
    /\ on_air
    /\ draining' = TRUE
    /\ UNCHANGED <<devices_in_scope, devices_ignored, ids_in_scope, ids_ignored,
                   active_links, on_air, registry, poisoned, lock, cb, last,
                   hook_balance, missed, main_vars>>

\* The id-removed event of an active link reaches .global_remove
DeliverRemoved(id) ==
    /\ draining
    /\ id \in active_links
    /\ \E actor_ok \in BOOLEAN : GlobalRemoved(id, actor_ok)

NextLive ==
    \/ ~draining /\ Next
    \/ StartDraining
    \/ \E id \in Ids : DeliverRemoved(id)

\* The environment's promise: the id-removed event of each active link is
\* delivered.
SpecLive ==
    Init /\ [][NextLive]_vars /\ \A id \in Ids : WF_vars(DeliverRemoved(id))

----------------------------------------------------------------------------
\* The same callbacks entered by several callers at once, step by step. A
\* caller blocked on the lock is a caller whose step is not yet enabled.

\* RwLock::write: granted when nobody holds the lock
CanWrite(l) == l.writer = "none" /\ l.readers = {}

\* RwLock::read: granted when no writer holds the lock
CanRead(l) == l.writer = "none"

WriteLocked(l, t) == [l EXCEPT !.writer = t]

ReadLocked(l, t) == [l EXCEPT !.readers = @ \cup {t}]

\* Dropping caller t's guard
Released(l, t) ==
    [writer |-> IF l.writer = t THEN "none" ELSE l.writer, readers |-> l.readers \ {t}]

\* Mutant of RemoveAcquire: remove_link is entered under read().
RemoveAcquireShared(l, t) == [granted |-> CanRead(l), lock |-> ReadLocked(l, t)]

\* .global_remove callback: the write().unwrap() in front of remove_link
RemoveAcquire(l, t) == [granted |-> CanWrite(l), lock |-> WriteLocked(l, t)]

\* Mutant of LockDuringHook: the guard is dropped before the hook is called.
LockDuringHookDropped(l, t) == Released(l, t)

\* update_on_air calls the hook inside the State method: the callback's
\* write guard is still alive.
LockDuringHook(l, t) == l

At(t, pc) == cb[t].pc = pc

Goto(t, pc) == cb' = [cb EXCEPT ![t].pc = pc]

Return(t) == cb' = [cb EXCEPT ![t] = Idle]

\* A panic under the write guard: the guard drops and poisons the lock.
PanicLocked(t) ==
    /\ poisoned' = TRUE
    /\ lock' = Released(lock, t)
    /\ Return(t)

\* .global callback, Node or Link branch: write().unwrap(). On a poisoned
\* lock the unwrap panics and the callback is over with nothing changed, so
\* there is no step to take.
EnterGlobal(t, kind, id, props) ==
    /\ At(t, "idle")
    /\ CanWrite(lock)
    /\ ~poisoned
    /\ lock' = WriteLocked(lock, t)
    /\ cb' = [cb EXCEPT ![t] = [pc |-> IF kind = "node" THEN "add_node" ELSE "add_link",
                                kind |-> kind, id |-> id, props |-> props, hook |-> "none"]]
    /\ UNCHANGED <<devices_in_scope, devices_ignored, ids_in_scope, ids_ignored,
                   active_links, on_air, registry, poisoned, last, hook_balance, missed, main_vars, draining>>

\* add_node under the guard, which drops at the end of the statement
RunAddNode(t) ==
    /\ At(t, "add_node")
    /\ Store(add_node(CurrentState, cb[t].id, cb[t].props))
    /\ lock' = Released(lock, t)
    /\ Return(t)
    /\ UNCHANGED <<poisoned, last, hook_balance, missed, main_vars, draining>>

\* add_link up to update_on_air: the unwraps, then the insertion
RunInsertLink(t) ==
    /\ At(t, "add_link")
    /\ IF endpoint_panic(cb[t].props) # "none"
       THEN /\ PanicLocked(t)
            /\ Store(CurrentState)
       ELSE /\ Store(insert_link(CurrentState, cb[t].id, cb[t].props))
            /\ Goto(t, "update_on_air")
            /\ UNCHANGED <<poisoned, lock>>
    /\ UNCHANGED <<last, hook_balance, missed, main_vars, draining>>

\* remove_link up to update_on_air
RunDropLink(t) ==
    /\ At(t, "remove_link")
    /\ Store(drop_link(CurrentState, cb[t].id))
    /\ Goto(t, "update_on_air")
    /\ UNCHANGED <<poisoned, lock, last, hook_balance, missed, main_vars, draining>>

\* The callback's statement after the State method returned: the Link
\* branch is over, .global_remove goes on to log check_if_on_air.
Finish(t) ==
    IF cb[t].kind = "remove" THEN Goto(t, "log_on_air") ELSE Return(t)

\* update_on_air up to the hook call: the comparison and the assignment
RunUpdateOnAir(t) ==
    /\ At(t, "update_on_air")
    /\ LET out == update_on_air(CurrentState, TRUE) IN
       /\ Store(out.state)
       /\ IF out.calls = <<>>
          THEN /\ lock' = Released(lock, t)
               /\ Finish(t)
          ELSE /\ cb' = [cb EXCEPT ![t].pc = "hook", ![t].hook = out.calls[1]]
               /\ lock' = LockDuringHook(lock, t)
    /\ UNCHANGED <<poisoned, last, hook_balance, missed, main_vars, draining>>

\* The hook call, and the return from the State method
RunHook(t, actor_ok) ==
    /\ At(t, "hook")
    /\ hook_balance' = hook_balance + HookDelta(ActorCall(cb[t].hook, actor_ok).calls)
    /\ IF ActorCall(cb[t].hook, actor_ok).panic # "none"
       THEN PanicLocked(t)
       ELSE /\ lock' = Released(lock, t)
            /\ Finish(t)
            /\ UNCHANGED poisoned
    /\ UNCHANGED <<devices_in_scope, devices_ignored, ids_in_scope, ids_ignored,
                   active_links, on_air, registry, last, missed, main_vars, draining>>

\* .global_remove callback: read().unwrap() of the membership test
EnterRemove(t, id) ==
    /\ At(t, "idle")
    /\ CanRead(lock)
    /\ ~poisoned
    /\ lock' = ReadLocked(lock, t)
    /\ cb' = [cb EXCEPT ![t] = [pc |-> "contains", kind |-> "remove", id |-> id,
                                props |-> EmptyProps, hook |-> "none"]]
    /\ UNCHANGED <<devices_in_scope, devices_ignored, ids_in_scope, ids_ignored,
                   active_links, on_air, registry, poisoned, last, hook_balance, missed, main_vars, draining>>

\* The membership test; the read guard drops at the end of the condition
RunContains(t) ==
    /\ At(t, "contains")
    /\ lock' = Released(lock, t)
    /\ IF remove_hit(CurrentState, cb[t].id) THEN Goto(t, "write") ELSE Return(t)
    /\ UNCHANGED <<devices_in_scope, devices_ignored, ids_in_scope, ids_ignored,
                   active_links, on_air, registry, poisoned, last, hook_balance, missed, main_vars, draining>>

\* write().unwrap() in front of remove_link
RunRemoveLock(t) ==
    /\ At(t, "write")
    /\ RemoveAcquire(lock, t).granted
    /\ IF poisoned
       THEN Return(t) /\ UNCHANGED lock
       ELSE Goto(t, "remove_link") /\ lock' = RemoveAcquire(lock, t).lock
    /\ UNCHANGED <<devices_in_scope, devices_ignored, ids_in_scope, ids_ignored,
                   active_links, on_air, registry, poisoned, last, hook_balance, missed, main_vars, draining>>

\* read().unwrap().check_if_on_air() for the log line
RunLogOnAir(t) ==
    /\ At(t, "log_on_air")
    /\ CanRead(lock)
    /\ Return(t)
    /\ UNCHANGED <<devices_in_scope, devices_ignored, ids_in_scope, ids_ignored,
                   active_links, on_air, registry, poisoned, lock, last, hook_balance, missed, main_vars, draining>>

NextConc ==
    \/ \E t \in Callers, e \in NodeEvents : EnterGlobal(t, "node", e[1], e[2])
    \/ \E t \in Callers, id \in Ids :
         \E props \in LinkProps(id) : EnterGlobal(t, "link", id, props)
    \/ \E t \in Callers : RunAddNode(t)
    \/ \E t \in Callers : RunInsertLink(t)
    \/ \E t \in Callers : RunUpdateOnAir(t)
    \/ \E t \in Callers, actor_ok \in BOOLEAN : RunHook(t, actor_ok)
    \/ \E t \in Callers, id \in NodeIds : EnterRemove(t, id)
    \/ \E t \in Callers : RunContains(t)
    \/ \E t \in Callers : RunRemoveLock(t)
    \/ \E t \in Callers : RunDropLink(t)
    \/ \E t \in Callers : RunLogOnAir(t)

SpecConc == Init /\ [][NextConc]_vars

----------------------------------------------------------------------------
\* The binary's entry point, src/src/main.rs: its own State with a single
\* headset node, and the listener callbacks of main. get_input_node and
\* get_output_node are the same functions there, unwrapped in the same order.

HeadsetNode == (KeyDescription :> "Jabra Engage 75 Mono") @@ (KeyName :> "headset")

\* Property bags of the node-added events main sees
MainNodeProps == {EmptyProps, UnnamedNode, PlainNode, HeadsetNode}

MainState ==
    [headset_id |-> headset_id, active_links |-> main_active_links, on_air |-> main_on_air]

StoreMain(s) ==
    /\ headset_id' = s.headset_id
    /\ main_active_links' = s.active_links
    /\ main_on_air' = s.on_air

\* State::is_link_in_scope (main.rs)
main_is_link_in_scope(s, output_node) ==
    s.headset_id.some /\ s.headset_id.val = output_node

\* State::check_if_on_air (main.rs): the stored flag
main_check_if_on_air(s) == s.on_air

\* State::run_on_air_hook (main.rs): returns Ok(())
main_run_on_air_hook == <<"run_on_air_hook">>

\* State::update_on_air (main.rs)
main_update_on_air(s) ==
    LET current_on_air == main_check_if_on_air(s)
    IN  IF current_on_air # s.on_air
        THEN [state |-> [s EXCEPT !.on_air = current_on_air], calls |-> main_run_on_air_hook]
        ELSE [state |-> s, calls |-> <<>>]

\* State::set_headset_id (main.rs)
set_headset_id(s, id) == main_update_on_air([s EXCEPT !.headset_id = Some(id)])

\* State::add_link (main.rs)
main_add_link(s, id) == main_update_on_air([s EXCEPT !.active_links = @ \cup {id}])

\* State::remove_link (main.rs)
main_remove_link(s, id) == main_update_on_air([s EXCEPT !.active_links = @ \ {id}])

MainHandled(kind, id, calls, panic) ==
    [kind |-> kind, id |-> id, calls |-> calls, panic |-> panic]

\* .global callback of main, Node branch
MainNodeAdded(id, has_props, props) ==
    /\ IF has_props /\ DictGet(props, KeyDescription).some
       THEN LET node_description == DictGet(props, KeyDescription).val
                out == IF node_description = "Jabra Engage 75 Mono"
                       THEN set_headset_id(MainState, id)
                       ELSE [state |-> MainState, calls |-> <<>>]
            IN  /\ StoreMain(out.state)
                /\ local_registry' =
                      [k \in DOMAIN local_registry \cup {id} |->
                          IF k = id THEN node_description ELSE local_registry[k]]
                /\ main_last' = MainHandled("node", id, out.calls, "none")
       ELSE /\ StoreMain(MainState)
            /\ main_last' = MainHandled("node", id, <<>>, "none")
            /\ UNCHANGED local_registry
    /\ UNCHANGED <<devices_in_scope, devices_ignored, ids_in_scope, ids_ignored,
                   active_links, on_air, registry, poisoned, lock, cb, last,
                   hook_balance, missed, draining>>

\* .global callback of main, Link branch. The unwraps panic under the read
\* guard, which poisons nothing.
MainLinkAdded(id, has_props, props) ==
    /\ IF ~has_props
       THEN /\ StoreMain(MainState)
            /\ main_last' = MainHandled("link", id, <<>>, "none")
       ELSE IF endpoint_panic(props) # "none"
       THEN /\ StoreMain(MainState)
            /\ main_last' = MainHandled("link", id, <<>>, endpoint_panic(props))
       ELSE IF main_is_link_in_scope(MainState, output_node_of(props))
       THEN LET out == main_add_link(MainState, id)
            IN  /\ StoreMain(out.state)
                /\ main_last' = MainHandled("link", id, out.calls, "none")
       ELSE /\ StoreMain(MainState)
            /\ main_last' = MainHandled("link", id, <<>>, "none")
    /\ UNCHANGED local_registry
    /\ UNCHANGED <<devices_in_scope, devices_ignored, ids_in_scope, ids_ignored,
                   active_links, on_air, registry, poisoned, lock, cb, last,
                   hook_balance, missed, draining>>

\* .global_remove callback of main
MainGlobalRemoved(id) ==
    /\ IF id \in main_active_links
       THEN LET out == main_remove_link(MainState, id)
            IN  /\ StoreMain(out.state)
                /\ main_last' = MainHandled("remove", id, out.calls, "none")
       ELSE /\ StoreMain(MainState)
            /\ main_last' = MainHandled("remove", id, <<>>, "none")
    /\ UNCHANGED local_registry
    /\ UNCHANGED <<devices_in_scope, devices_ignored, ids_in_scope, ids_ignored,
                   active_links, on_air, registry, poisoned, lock, cb, last,
                   hook_balance, missed, draining>>

NextMain ==
    \/ \E id \in NodeIds, props \in MainNodeProps : MainNodeAdded(id, TRUE, props)
    \/ \E id \in NodeIds : MainNodeAdded(id, FALSE, EmptyProps)
    \/ \E id \in Ids : \E props \in LinkProps(id) : MainLinkAdded(id, TRUE, props)
    \/ \E id \in Ids : MainLinkAdded(id, FALSE, EmptyProps)
    \/ \E id \in NodeIds : MainGlobalRemoved(id)

SpecMain == Init /\ [][NextMain]_vars

----------------------------------------------------------------------------
\* Properties

\* The event handled last was a link-added event whose endpoints add_link
\* read and parsed.
ParsedLink(ev) ==
    /\ ev.kind = "link"
    /\ ev.has_props
    /\ ev.panic # "PoisonError"
    /\ endpoint_panic(ev.props) = "none"

\* The event handled last was a link-added event handed to add_link with an
\* endpoint missing or not a number.
BadEndpointLink(ev) ==
    /\ ev.kind = "link"
    /\ ev.has_props
    /\ ev.panic # "PoisonError"
    /\ endpoint_panic(ev.props) # "none"

\* The hook calls of one recomputation that takes on_air from a to b.
EdgeCalls(a, b) ==
    IF a = b THEN <<>> ELSE IF b THEN <<"go_on_air">> ELSE <<"go_off_air">>

\* C1: after every completed mutation, on_air is TRUE exactly when
\* active_links is non-empty.
C1_OnAirIffActiveLinks == on_air = (active_links # {})

\* C1 witness: a removal has completed that left another link active.
C1_Witness ==
    /\ last.kind = "remove" /\ last.hit /\ last.panic = "none"
    /\ on_air /\ active_links # {}

\* C2: a callback calls a hook exactly when it changes on_air, and then
\* makes the one call that matches the new value.
C2_HooksEdgeTriggered == [][last'.calls = EdgeCalls(on_air, on_air')]_vars

\* C2 witness: a further qualifying link was added while already on air,
\* with no hook call.
C2_Witness ==
    /\ ParsedLink(last) /\ last.panic = "none" /\ last.calls = <<>>
    /\ last.id \in active_links /\ Cardinality(active_links) >= 2 /\ on_air

\* C3: a link-added event whose output node is in scope and whose input node
\* is ignored inserts nothing, leaves on_air alone and calls no hook.
C3_IgnorePrecedence ==
    [][ ( /\ ParsedLink(last')
          /\ output_node_of(last'.props) \in ids_in_scope
          /\ input_node_of(last'.props) \in ids_ignored )
        => ( /\ active_links' = active_links
             /\ on_air' = on_air
             /\ last'.calls = <<>> ) ]_vars

\* C3 witness: such an event was handled, for a link that is not active.
C3_Witness ==
    /\ ParsedLink(last) /\ last.panic = "none"
    /\ output_node_of(last.props) \in ids_in_scope
    /\ input_node_of(last.props) \in ids_ignored
    /\ last.id \notin active_links

\* C4 (as claimed): a link-added event with a missing or malformed endpoint
\* makes add_link return (an error value) with the State unchanged and no
\* hook called.
C4_BadEndpointReturnsError ==
    [][ BadEndpointLink(last')
        => ( /\ last'.panic = "none"
             /\ last'.calls = <<>>
             /\ UNCHANGED <<active_links, on_air, ids_in_scope, ids_ignored, registry>> ) ]_vars

\* C5 (as claimed): the event delivered after a link-added event with a
\* missing or malformed endpoint still finds the State acquirable.
C5_BadEndpointKeepsProcessing ==
    [][ BadEndpointLink(last) => last'.panic # "PoisonError" ]_vars

\* C6 (as claimed): the event delivered after a transition whose hook actor
\* failed is still processed.
C6_ActorFailureKeepsProcessing ==
    [][ last.panic = "actor" => last'.panic # "PoisonError" ]_vars

\* C7: ids_in_scope and ids_ignored only grow.
C7_ScopeSticky ==
    [][ids_in_scope \subseteq ids_in_scope' /\ ids_ignored \subseteq ids_ignored']_vars

\* C7 witness: an id-removed event was handled for an id that is in both
\* sets and still is.
C7_Witness ==
    /\ last.kind = "remove" /\ last.panic = "none"
    /\ last.id \in ids_in_scope /\ last.id \in ids_ignored

\* C8 (as claimed): every active link has its output node in ids_in_scope
\* and its input node outside ids_ignored, in the current id sets.
C8_ActiveLinksQualifyNow ==
    \A l \in active_links :
        /\ LinkEnds(l).output \in ids_in_scope
        /\ LinkEnds(l).input \notin ids_ignored

\* C8 (amended): every active link has its output node in ids_in_scope, and
\* its input node was outside ids_ignored when the link was inserted.
C8_ActiveLinksQualifiedWhenAdded ==
    [][ /\ \A l \in active_links' : LinkEnds(l).output \in ids_in_scope'
        /\ \A l \in active_links' \ active_links : LinkEnds(l).input \notin ids_ignored ]_vars

\* C8 witness: a link is active whose input node was put in ids_ignored
\* after the link was inserted.
C8_Witness ==
    \E l \in active_links :
        /\ LinkEnds(l).output \in ids_in_scope
        /\ LinkEnds(l).input \in ids_ignored

\* C9: an id-removed event for an id outside active_links changes nothing
\* and calls no hook.
C9_RemoveOfNonMemberIsNoOp ==
    [][ (last'.kind = "remove" /\ last'.id \notin active_links)
        => ( /\ UNCHANGED <<active_links, on_air, ids_in_scope, ids_ignored, registry>>
             /\ last'.calls = <<>> ) ]_vars

\* C9 witness: while on air, an id-removed event was handled for an id in
\* use that is no active link (and is a classified node).
C9_Witness ==
    /\ last.kind = "remove" /\ ~last.hit /\ last.panic = "none"
    /\ on_air /\ last.id \in ids_in_scope


\* Where a caller is inside a State method that mutates the State.
Mutating == {"add_node", "add_link", "remove_link", "update_on_air", "hook"}

\* Where a caller reads the State.
Reading == {"contains"}

\* C10: a caller inside add_node, add_link or remove_link, up to the return
\* of the hook call, holds the write lock alone, and no other caller is at a
\* place where it reads or modifies the State.
C10_MutationsHoldWriteLock ==
    \A t \in Callers :
        cb[t].pc \in Mutating =>
            /\ lock.writer = t
            /\ lock.readers = {}
            /\ \A u \in Callers \ {t} : cb[u].pc \notin Mutating \cup Reading

\* C10 witness: one caller is inside the hook call of a removal while the
\* other, having found its id active, waits for the write lock.
C10_Witness ==
    \E t \in Callers, u \in Callers :
        /\ cb[t].pc = "hook" /\ cb[t].kind = "remove"
        /\ cb[u].pc = "write"


\* C11 (as claimed): a caller that executes remove_link(id) finds id in
\* active_links at that moment.
C11_RemoveLinkOnlyForMembers ==
    \A t \in Callers : cb[t].pc = "remove_link" => cb[t].id \in active_links

\* C12 (as claimed): the registry entry of the largest id is "unresolved",
\* and resolve_node_id answers "unresolved" for every id the registry does
\* not hold.
C12_UnresolvedPlaceholderKept ==
    /\ U32Max \in DOMAIN registry
    /\ registry[U32Max] = "unresolved"
    /\ \A id \in Ids \ DOMAIN registry :
          /\ resolve_node_id(CurrentState, id).some
          /\ resolve_node_id(CurrentState, id).val = "unresolved"

\* The event handled last was a node-added event handed to add_node.
AddedNode(ev) == ev.kind = "node" /\ ev.has_props /\ ev.panic = "none"

\* Some alias of the bag is one of the configured names.
SomeAliasIn(props, configured) ==
    \E i \in 1..Len(get_all_names(props)) : get_all_names(props)[i] \in configured

\* C13: a node-added event whose bag holds none of the name keys changes
\* neither the registry nor the id sets, active_links or on_air.
C13_UnnamedNodeRecordedNowhere ==
    [][ ( /\ AddedNode(last')
          /\ DOMAIN last'.props \cap {KeyDescription, KeyNick, KeyName} = {} )
        => UNCHANGED <<registry, ids_in_scope, ids_ignored, active_links, on_air>> ]_vars

\* C13 witness: such an event was handled, its bag holding another
\* property, and the registry has no entry for its id.
C13_Witness ==
    /\ AddedNode(last)
    /\ last.props = UnnamedNode
    /\ last.id \notin DOMAIN registry

\* C14: add_node puts the id in ids_in_scope exactly when an alias is a
\* configured in-scope name and in ids_ignored exactly when an alias is a
\* configured ignored name, each test on its own.
C14_ClassificationIndependent ==
    [][ AddedNode(last')
        => ( /\ ids_in_scope' = ids_in_scope \cup
                   (IF SomeAliasIn(last'.props, devices_in_scope) THEN {last'.id} ELSE {})
             /\ ids_ignored' = ids_ignored \cup
                   (IF SomeAliasIn(last'.props, devices_ignored) THEN {last'.id} ELSE {}) ) ]_vars

\* C14 witness: a node whose aliases match both configured sets was added
\* and its id is in both id sets.
C14_Witness ==
    /\ AddedNode(last)
    /\ SomeAliasIn(last.props, devices_in_scope)
    /\ SomeAliasIn(last.props, devices_ignored)
    /\ last.id \in ids_in_scope /\ last.id \in ids_ignored

\* C15: an id enters ids_in_scope (ids_ignored) only on a node-added event
\* one of whose aliases equals a configured name character for character.
C15_AliasMatchExact ==
    [][ /\ \A id \in ids_in_scope' \ ids_in_scope :
              AddedNode(last') /\ last'.id = id
              /\ SomeAliasIn(last'.props, devices_in_scope)
        /\ \A id \in ids_ignored' \ ids_ignored :
              AddedNode(last') /\ last'.id = id
              /\ SomeAliasIn(last'.props, devices_ignored) ]_vars

\* C15 witness: a node whose alias "mic" differs from the configured "Mic"
\* in case only was added and its id is in neither id set.
C15_Witness ==
    /\ AddedNode(last)
    /\ last.props = PlainNode
    /\ "Mic" \in devices_in_scope
    /\ last.id \notin ids_in_scope /\ last.id \notin ids_ignored

\* C19: a node-added event leaves active_links and on_air alone and calls
\* no hook; on_air changes only on link-added and id-removed events.
C19_AddNodeFrame ==
    [][ /\ last'.kind = "node"
           => (UNCHANGED <<active_links, on_air>> /\ last'.calls = <<>>)
        /\ on_air' # on_air => last'.kind \in {"link", "remove"} ]_vars

\* C19 witness: off air, a node was added that came into scope.
C19_Witness ==
    /\ AddedNode(last)
    /\ SomeAliasIn(last.props, devices_in_scope)
    /\ last.id \in ids_in_scope
    /\ ~on_air /\ active_links = {}

\* No caller is inside a callback.
Quiescent == \A t \in Callers : cb[t].pc = "idle"

\* C16: hook calls alternate go_on_air, go_off_air, ... beginning with
\* go_on_air, that is, after every call the go_on_air calls made exceed the
\* go_off_air calls made by one or by none; and with no caller inside a
\* callback the excess is one when on_air is set and none when it is not.
C16_HooksAlternate ==
    /\ hook_balance \in {0, 1}
    /\ Quiescent => hook_balance = (IF on_air THEN 1 ELSE 0)

\* C16 witness: go_on_air has been called once more than go_off_air, one
\* caller is about to call go_off_air under the write guard and the other
\* waits for the lock in front of remove_link.
C16_Witness ==
    \E t \in Callers, u \in Callers :
        /\ cb[t].pc = "hook" /\ cb[t].hook = "go_off_air"
        /\ cb[u].pc = "write"
        /\ lock.writer = t
        /\ hook_balance = 1 /\ ~on_air

\* C18: a link enters active_links only in the step of its own link-added
\* event, its output node being in scope before that step; a link that
\* add_link found out of scope is not made active by the node-added events
\* that follow, which change on_air and call a hook as little.
C18_LinkEvaluationOneShot ==
    [][ /\ \A l \in active_links' \ active_links :
              /\ ParsedLink(last') /\ last'.id = l
              /\ output_node_of(last'.props) \in ids_in_scope
        /\ (last'.kind = "node" /\ missed \in Ids)
              => ( /\ missed \notin active_links'
                   /\ on_air' = on_air
                   /\ last'.calls = <<>> ) ]_vars

\* C18 witness: the link's output node came into scope after the link was
\* evaluated, the input node is not ignored, a node-added event for the
\* output node was handled last, and the link is not active.
C18_Witness ==
    /\ missed \in Ids \ active_links
    /\ AddedNode(last)
    /\ last.id = LinkEnds(missed).output
    /\ link_qualifies(CurrentState, LinkEnds(missed).output, LinkEnds(missed).input)
    /\ ~on_air

\* C17 (as claimed): for the State of main.rs, on_air is set exactly when
\* active_links is not empty, after every add_link and remove_link.
C17_MainOnAirIffActiveLinks ==
    main_check_if_on_air(MainState) = (main_active_links # {})

\* C20 (as claimed): on air, once no link-added event arrives any more and
\* the id-removed event of every active link is delivered, the system comes
\* to be off air with no link active and go_off_air called for it.
C20_OffAirReached ==
    (draining /\ on_air) ~> (~on_air /\ active_links = {} /\ hook_balance = 0)

====
